---- MODULE Spec2Model ----
(***************************************************************************)
(* pixelmorpher: the cached database connector (lib/database/mongoose),    *)
(* the image action handlers (lib/actions/image.actions) and the           *)
(* transformation form (components/shared/TransformationForm).             *)
(*                                                                         *)
(* Server side.  Every handler invocation is a call held in a slot of      *)
(* `calls`.  A call runs from one await to the next in one step: the       *)
(* invocation runs connectToDatabase's synchronous prefix and leaves the   *)
(* handler suspended at `await connectToDatabase()`; the continuations of  *)
(* connectToDatabase and of the handler are promise reactions, run one by  *)
(* one in the order they were queued (`microtasks`); each document         *)
(* operation (findById, create, findByIdAndUpdate, ...) takes effect       *)
(* atomically together with the code that follows it up to the next await, *)
(* when no reaction is queued.  Calls of different slots interleave at the *)
(* awaits.                                                                 *)
(***************************************************************************)
EXTENDS Integers, Sequences, FiniteSets, TLC

\* Bounds of the model.
MaxCalls == 2      \* handler invocations in a behaviour; they may all be in flight together

Slots == 1..MaxCalls

\* null / undefined, and the wrappers of nullable values.
NULL == [null |-> TRUE]
Undefined == [undefined |-> TRUE]

\* A mongoose ObjectId and its hex string.
ObjectId(hex) == [oid |-> hex]
toHexString(o) == o.oid

\* The users collection (users are created and removed outside this code).
UsersInDb == {"u1", "u2"}
\* userId arguments: the stored users and one id that resolves to no user.
UserIds == {"u1", "u2", "u3"}
\* The arguments of a call other than the ids: the payload of the image (title
\* stands for the eleven fields of AddImageParams.image, which the handlers
\* carry along without reading) and the path to revalidate.
Payloads == {[title |-> "t1", path |-> "/"], [title |-> "t2", path |-> "/transformations"]}
\* Image id arguments: the image stored at the start, and an id that is
\* missing until an addImage creates it.
ImageIdArgs == {1, 2}

VARIABLES
    MONGODB_URL,   \* process.env.MONGO_URI: NULL or the connection string
    cached,        \* the process-wide { connection, promise }
    attempts,      \* one entry per mongoose.connect call: "pending", "fulfilled", "rejected"
    calls,         \* slot -> the handler invocation in it
    microtasks,    \* the slots whose promise reaction is queued, in queue order
    images         \* the images collection: id -> document, NULL once deleted

serverVars == <<MONGODB_URL, cached, attempts, calls, microtasks, images>>

IdleCall == [kind |-> "none", pc |-> "idle", userId |-> "-", imageId |-> 0,
             title |-> "-", path |-> "-", promise |-> NULL, connect |-> NULL,
             author |-> NULL,
             target |-> NULL, handle |-> NULL, result |-> Undefined,
             logged |-> NULL, thrown |-> NULL, revalidated |-> {},
             redirect |-> NULL, wrote |-> FALSE]

NewCall(kind, userId, imageId, title, path) ==
    [IdleCall EXCEPT !.kind = kind, !.pc = "enter", !.userId = userId,
                     !.imageId = imageId, !.title = title, !.path = path]

\* The connection handle that connect attempt p resolves to.
Handle(p) == [handle |-> p]

\* The document with this id, NULL when there is none (Model.findById).
FindImage(id) == IF id \in 1..Len(images) THEN images[id] ELSE NULL
FindUser(userId) == IF userId \in UsersInDb THEN [_id |-> ObjectId(userId)] ELSE NULL

\* JSON.parse(JSON.stringify(doc)): ObjectIds become their hex strings, null stays null.
Serialize(doc) ==
    IF doc = NULL THEN NULL
    ELSE [_id |-> toHexString(doc._id), author |-> toHexString(doc.author),
          title |-> doc.title]

\* The invocation has ended: its locals are gone, what it returned, threw,
\* logged, revalidated and redirected to stays on record.
Ended(call) ==
    [call EXCEPT !.pc = "done", !.promise = NULL, !.connect = NULL,
                 !.author = NULL, !.target = NULL]

\* handleError(error): logs the error and returns.
handleError(call, message) == [call EXCEPT !.logged = [message |-> message]]

(***************************************************************************)
(* connectToDatabase                                                       *)
(***************************************************************************)

\* connectToDatabase with mongoose.connect called by every caller that finds no
\* handle, the cached promise overwritten.
ConnectToDatabaseEnterNoPromiseReuse ==
    IF cached.connection # NULL
    THEN [outcome |-> "return", handle |-> cached.connection,
          cached |-> cached, attempts |-> attempts]
    ELSE IF MONGODB_URL = NULL
    THEN [outcome |-> "throw", message |-> "MONGO_URI is not defined or Missing",
          cached |-> cached, attempts |-> attempts]
    ELSE [outcome |-> "await", promise |-> [id |-> Len(attempts) + 1],
          cached |-> [cached EXCEPT !.promise = [id |-> Len(attempts) + 1]],
          attempts |-> Append(attempts, "pending")]

\* connectToDatabase with MONGO_URI checked only after the promise is made.
ConnectToDatabaseEnterLateUrlCheck ==
    IF cached.connection # NULL
    THEN [outcome |-> "return", handle |-> cached.connection,
          cached |-> cached, attempts |-> attempts]
    ELSE IF cached.promise # NULL
    THEN [outcome |-> "await", promise |-> cached.promise,
          cached |-> cached, attempts |-> attempts]
    ELSE [outcome |-> IF MONGODB_URL = NULL THEN "throw" ELSE "await",
          message |-> "MONGO_URI is not defined or Missing",
          promise |-> [id |-> Len(attempts) + 1],
          cached |-> [cached EXCEPT !.promise = [id |-> Len(attempts) + 1]],
          attempts |-> Append(attempts, "pending")]

\* connectToDatabase up to its await: the cached handle is returned as it is;
\* without MONGO_URI the call throws; otherwise the cached promise is awaited,
\* and mongoose.connect is called to make it when there is none.
ConnectToDatabaseEnter ==
    IF cached.connection # NULL
    THEN [outcome |-> "return", handle |-> cached.connection,
          cached |-> cached, attempts |-> attempts]
    ELSE IF MONGODB_URL = NULL
    THEN [outcome |-> "throw", message |-> "MONGO_URI is not defined or Missing",
          cached |-> cached, attempts |-> attempts]
    ELSE IF cached.promise # NULL
    THEN [outcome |-> "await", promise |-> cached.promise,
          cached |-> cached, attempts |-> attempts]
    ELSE [outcome |-> "await", promise |-> [id |-> Len(attempts) + 1],
          cached |-> [cached EXCEPT !.promise = [id |-> Len(attempts) + 1]],
          attempts |-> Append(attempts, "pending")]

\* connectToDatabase dropping the cached promise when it rejects, so that a
\* later call makes a new attempt.
ConnectToDatabaseResumeDropsRejected(promise) ==
    IF attempts[promise.id] = "fulfilled"
    THEN [outcome |-> "return", handle |-> Handle(promise.id),
          cached |-> [cached EXCEPT !.connection = Handle(promise.id)]]
    ELSE [outcome |-> "throw", message |-> "connection failed",
          cached |-> [cached EXCEPT !.promise = NULL]]

\* connectToDatabase after its await, the awaited promise being settled:
\* the handle is stored and returned, or the rejection is thrown on.
ConnectToDatabaseResume(promise) ==
    IF attempts[promise.id] = "fulfilled"
    THEN [outcome |-> "return", handle |-> Handle(promise.id),
          cached |-> [cached EXCEPT !.connection = Handle(promise.id)]]
    ELSE [outcome |-> "throw", message |-> "connection failed", cached |-> cached]

(***************************************************************************)
(* The action handlers, one operator per stretch of code between awaits.   *)
(***************************************************************************)

\* The first document operation of each handler.
FirstStep(kind) ==
    CASE kind = "addImage" -> "findUser"
      [] kind = "updateImage" -> "findImage"
      [] kind = "deleteImage" -> "delete"
      [] kind = "getImageById" -> "populate"

\* `await connectToDatabase()` returned: the handler issues its first operation.
AfterConnect(call, handle) ==
    [call EXCEPT !.handle = handle, !.connect = NULL, !.pc = FirstStep(call.kind)]

\* A handler without its catch block: the error reaches the caller.
CatchRethrows(call, message) ==
    Ended([call EXCEPT !.thrown = [message |-> message]])

\* catch (error) { handleError(error) } of addImage, updateImage, getImageById:
\* the handler falls off its end and returns undefined.
AddImageCatch(call, message) == Ended(handleError(call, message))
UpdateImageCatch(call, message) == Ended(handleError(call, message))
GetImageByIdCatch(call, message) == Ended(handleError(call, message))

\* deleteImage with the redirect after the try block instead of in finally:
\* handleError's return skips nothing, but a caught error ends the handler.
DeleteImageCatchNoFinally(call, message) == Ended(handleError(call, message))

\* finally { redirect('/') } of deleteImage.
DeleteImageFinally(call) == Ended([call EXCEPT !.redirect = [to |-> "/"]])
DeleteImageCatch(call, message) == DeleteImageFinally(handleError(call, message))

Catch(call, message) ==
    CASE call.kind = "addImage" -> AddImageCatch(call, message)
      [] call.kind = "updateImage" -> UpdateImageCatch(call, message)
      [] call.kind = "deleteImage" -> DeleteImageCatch(call, message)
      [] call.kind = "getImageById" -> GetImageByIdCatch(call, message)

\* addImage after User.findById: no author throws, else Image.create is issued.
AddImageAfterFindUser(call, author) ==
    IF author = NULL THEN AddImageCatch(call, "User not found")
    ELSE [call EXCEPT !.author = author._id, !.pc = "create"]

\* Image.create(image) with the author left to the caller's userId argument
\* of the first stored user.
AddImageDocumentWrongAuthor(call) ==
    [_id |-> ObjectId(Len(images) + 1), author |-> ObjectId("u1"), title |-> call.title]

\* The document Image.create({ ...image, author: author._id }) stores.
AddImageDocument(call) ==
    [_id |-> ObjectId(Len(images) + 1), author |-> call.author, title |-> call.title]

\* addImage after Image.create without revalidatePath(path).
AddImageAfterCreateNoRevalidate(call, newImage) ==
    Ended([call EXCEPT !.result = Serialize(newImage), !.wrote = TRUE])

\* addImage after Image.create: revalidatePath(path), the JSON copy is returned.
AddImageAfterCreate(call, newImage) ==
    Ended([call EXCEPT !.revalidated = @ \cup {call.path},
                       !.result = Serialize(newImage), !.wrote = TRUE])

\* updateImage after Image.findById with only the missing image refused.
UpdateImageAfterFindByIdNoOwnerCheck(call, imageToUpdate) ==
    IF imageToUpdate = NULL
    THEN UpdateImageCatch(call, "Unauthorized or Image not found")
    ELSE [call EXCEPT !.target = imageToUpdate._id, !.pc = "update"]

\* updateImage after Image.findById: a missing image or another owner throws.
UpdateImageAfterFindById(call, imageToUpdate) ==
    IF imageToUpdate = NULL \/ toHexString(imageToUpdate.author) # call.userId
    THEN UpdateImageCatch(call, "Unauthorized or Image not found")
    ELSE [call EXCEPT !.target = imageToUpdate._id, !.pc = "update"]

\* findByIdAndUpdate with replacement fields that carry an author of their own.
UpdateImageDocumentWithAuthor(call, doc) ==
    IF doc = NULL THEN NULL
    ELSE [doc EXCEPT !.title = call.title, !.author = ObjectId("u2")]

\* The document Image.findByIdAndUpdate(id, image, { new: true }) leaves and
\* returns: the fields of `image` are set, the others (author) kept; null when
\* there is no such document.
UpdateImageDocument(call, doc) ==
    IF doc = NULL THEN NULL ELSE [doc EXCEPT !.title = call.title]

\* updateImage after findByIdAndUpdate: revalidatePath(path), the JSON copy.
UpdateImageAfterUpdate(call, updatedImage) ==
    Ended([call EXCEPT !.revalidated = @ \cup {call.path},
                       !.result = Serialize(updatedImage),
                       !.wrote = (updatedImage # NULL)])

\* deleteImage after Image.findByIdAndDelete: only the finally block is left.
DeleteImageAfterDelete(call, deleted) ==
    DeleteImageFinally([call EXCEPT !.wrote = (deleted # NULL)])

\* populateUser(query): the author replaced by the user's _id, firstName, lastName.
populateUser(doc) ==
    IF doc = NULL THEN NULL
    ELSE [doc EXCEPT !.author = [_id |-> doc.author, firstName |-> "first",
                                 lastName |-> "last"]]

\* JSON.parse(JSON.stringify(image)) of a populated document.
SerializePopulated(doc) ==
    [_id |-> toHexString(doc._id), title |-> doc.title,
     author |-> [_id |-> toHexString(doc.author._id),
                 firstName |-> doc.author.firstName, lastName |-> doc.author.lastName]]

\* getImageById after the populated findById: a missing image throws.
GetImageByIdAfterFind(call, image) ==
    IF image = NULL THEN GetImageByIdCatch(call, "Image not found")
    ELSE Ended([call EXCEPT !.result = SerializePopulated(image)])

(***************************************************************************)
(* Server actions                                                          *)
(***************************************************************************)

InFlight(s) == calls[s].pc \notin {"idle", "done"}

\* The slot a new invocation takes: the lowest one not used yet.
FreeSlot(s) ==
    /\ calls[s].pc = "idle"
    /\ \A t \in Slots : calls[t].pc = "idle" => s <= t

\* The slots of `among`, lowest first: the order in which the calls were made
\* and so the order in which they began to wait.
RECURSIVE InOrder(_)
InOrder(among) ==
    IF among = {} THEN <<>>
    ELSE LET s == CHOOSE x \in among : \A y \in among : x <= y
         IN <<s>> \o InOrder(among \ {s})

\* The calls suspended in connectToDatabase on the promise of attempt p.
Waiters(p) == {s \in Slots : calls[s].pc = "awaitConnect" /\ calls[s].promise = [id |-> p]}

\* A handler is invoked and runs to its first await, `await connectToDatabase()`:
\* connectToDatabase has run to its return, its throw or its own await.  Where
\* the promise awaited is settled already, the reaction is queued at once.
Invoke(s, call) ==
    /\ FreeSlot(s)
    /\ LET r == ConnectToDatabaseEnter IN
        /\ cached' = r.cached
        /\ attempts' = r.attempts
        /\ calls' = [calls EXCEPT ![s] =
                CASE r.outcome = "return" ->
                        [call EXCEPT !.pc = "awaitConnector",
                                     !.connect = [handle |-> r.handle]]
                  [] r.outcome = "throw" ->
                        [call EXCEPT !.pc = "awaitConnector",
                                     !.connect = [message |-> r.message]]
                  [] OTHER -> [call EXCEPT !.pc = "awaitConnect", !.promise = r.promise]]
        /\ microtasks' =
                IF r.outcome = "await" /\ r.attempts[r.promise.id] = "pending"
                THEN microtasks ELSE Append(microtasks, s)
    /\ UNCHANGED <<MONGODB_URL, images>>

addImage(s) ==
    \E image \in Payloads, userId \in UserIds :
        Invoke(s, NewCall("addImage", userId, 0, image.title, image.path))

updateImage(s) ==
    \E id \in ImageIdArgs, image \in Payloads, userId \in UserIds :
        Invoke(s, NewCall("updateImage", userId, id, image.title, image.path))

deleteImage(s) ==
    \E id \in ImageIdArgs : Invoke(s, NewCall("deleteImage", "-", id, "-", "-"))

getImageById(s) ==
    \E id \in ImageIdArgs : Invoke(s, NewCall("getImageById", "-", id, "-", "-"))

\* The connection attempt ends: mongoose.connect's promise is settled, and the
\* reactions of the calls awaiting it are queued in the order they began to wait.
MongooseConnectFulfilled ==
    /\ microtasks = <<>>
    /\ \E p \in 1..Len(attempts) :
        /\ attempts[p] = "pending"
        /\ attempts' = [attempts EXCEPT ![p] = "fulfilled"]
        /\ microtasks' = InOrder(Waiters(p))
    /\ UNCHANGED <<MONGODB_URL, cached, calls, images>>

MongooseConnectRejected ==
    /\ microtasks = <<>>
    /\ \E p \in 1..Len(attempts) :
        /\ attempts[p] = "pending"
        /\ attempts' = [attempts EXCEPT ![p] = "rejected"]
        /\ microtasks' = InOrder(Waiters(p))
    /\ UNCHANGED <<MONGODB_URL, cached, calls, images>>

\* The reaction at the head of the queue is that of a call suspended in
\* connectToDatabase: connectToDatabase goes on to its return or throw, and
\* the reaction of the handler awaiting it is queued.
connectToDatabaseResume(s) ==
    /\ microtasks # <<>> /\ Head(microtasks) = s
    /\ calls[s].pc = "awaitConnect"
    /\ LET r == ConnectToDatabaseResume(calls[s].promise) IN
        /\ cached' = r.cached
        /\ calls' = [calls EXCEPT ![s] =
                [@ EXCEPT !.pc = "awaitConnector",
                          !.connect = IF r.outcome = "return" THEN [handle |-> r.handle]
                                      ELSE [message |-> r.message]]]
    /\ microtasks' = Append(Tail(microtasks), s)
    /\ UNCHANGED <<MONGODB_URL, attempts, images>>

\* The reaction at the head of the queue is that of a handler suspended at
\* `await connectToDatabase()`: it goes on with its first document operation,
\* or with its catch block where connectToDatabase threw.
afterConnectToDatabase(s) ==
    /\ microtasks # <<>> /\ Head(microtasks) = s
    /\ calls[s].pc = "awaitConnector"
    /\ calls' = [calls EXCEPT ![s] =
            IF "handle" \in DOMAIN @.connect THEN AfterConnect(@, @.connect.handle)
            ELSE Catch(@, @.connect.message)]
    /\ microtasks' = Tail(microtasks)
    /\ UNCHANGED <<MONGODB_URL, cached, attempts, images>>

\* A document operation fails (the database is unreachable, the document is
\* rejected): the awaited promise rejects and the handler's catch block runs.
OperationFails(s) ==
    /\ microtasks = <<>>
    /\ calls[s].pc \in {"findUser", "create", "findImage", "update", "delete", "populate"}
    /\ calls' = [calls EXCEPT ![s] = Catch(@, "operation failed")]
    /\ UNCHANGED <<MONGODB_URL, cached, attempts, microtasks, images>>

addImageFindUser(s) ==
    /\ microtasks = <<>>
    /\ calls[s].pc = "findUser"
    /\ calls' = [calls EXCEPT ![s] = AddImageAfterFindUser(@, FindUser(@.userId))]
    /\ UNCHANGED <<MONGODB_URL, cached, attempts, microtasks, images>>

addImageCreate(s) ==
    /\ microtasks = <<>>
    /\ calls[s].pc = "create"
    /\ LET newImage == AddImageDocument(calls[s]) IN
        /\ images' = Append(images, newImage)
        /\ calls' = [calls EXCEPT ![s] = AddImageAfterCreate(@, newImage)]
    /\ UNCHANGED <<MONGODB_URL, cached, attempts, microtasks>>

updateImageFindById(s) ==
    /\ microtasks = <<>>
    /\ calls[s].pc = "findImage"
    /\ calls' = [calls EXCEPT ![s] = UpdateImageAfterFindById(@, FindImage(@.imageId))]
    /\ UNCHANGED <<MONGODB_URL, cached, attempts, microtasks, images>>

updateImageFindByIdAndUpdate(s) ==
    /\ microtasks = <<>>
    /\ calls[s].pc = "update"
    /\ LET id == toHexString(calls[s].target)
           updatedImage == UpdateImageDocument(calls[s], FindImage(id))
       IN /\ images' = IF updatedImage = NULL THEN images
                       ELSE [images EXCEPT ![id] = updatedImage]
          /\ calls' = [calls EXCEPT ![s] = UpdateImageAfterUpdate(@, updatedImage)]
    /\ UNCHANGED <<MONGODB_URL, cached, attempts, microtasks>>

deleteImageFindByIdAndDelete(s) ==
    /\ microtasks = <<>>
    /\ calls[s].pc = "delete"
    /\ LET id == calls[s].imageId
           deleted == FindImage(id)
       IN /\ images' = IF deleted = NULL THEN images ELSE [images EXCEPT ![id] = NULL]
          /\ calls' = [calls EXCEPT ![s] = DeleteImageAfterDelete(@, deleted)]
    /\ UNCHANGED <<MONGODB_URL, cached, attempts, microtasks>>

getImageByIdFind(s) ==
    /\ microtasks = <<>>
    /\ calls[s].pc = "populate"
    /\ calls' = [calls EXCEPT ![s] = GetImageByIdAfterFind(@, populateUser(FindImage(@.imageId)))]
    /\ UNCHANGED <<MONGODB_URL, cached, attempts, microtasks, images>>

InitServer ==
    /\ MONGODB_URL \in {NULL, [uri |-> "mongodb://"]}
    /\ cached = [connection |-> NULL, promise |-> NULL]
    /\ attempts = <<>>
    /\ calls = [s \in Slots |-> IdleCall]
    /\ microtasks = <<>>
    /\ images = <<[_id |-> ObjectId(1), author |-> ObjectId("u1"), title |-> "t1"]>>

(***************************************************************************)
(* The transformation form.  Its state is the component's props and        *)
(* useState cells, the timers its debounced closures have set, and the     *)
(* save it is awaiting.  An event handler runs to its end, or to its       *)
(* await, in one step, the effects of the render that follows included.    *)
(***************************************************************************)

\* Bounds of the form.
MaxEdits == 5      \* field edits in one burst (edits made while a timer is pending)
MaxFormEdits == 2  \* the same, where the form's saves are followed too
MaxApplies == 2    \* "Apply transformation" clicks in a behaviour

VARIABLES
    props,                  \* action, type, data, userId, creditBalance, config
    image,                  \* useState(data)
    newTransformation,      \* the pending-changes buffer
    isSubmitting,
    isTransforming,
    transformationConfig,   \* the accumulated configuration
    timers,                 \* the functions setTimeout will run, in firing order
    saving,                 \* NULL, or the slot of the server call onSubmit awaits
    navigated,              \* NULL, or the href given to router.push
    creditRequests,         \* updateCredits(userId, creditFee) calls made
    applyClicks,            \* clicks of "Apply transformation"
    creditDelta,            \* the sum of the amounts updateCredits was asked to add
    creditsPending,         \* updateCredits calls that have not settled
    burstEdits,             \* edits since an edit last found no timer pending
    burstUpdates            \* buffer updates the timers of those edits have made

formVars == <<props, image, newTransformation, isSubmitting, isTransforming,
              transformationConfig, timers, saving, navigated, creditRequests,
              applyClicks, creditDelta, creditsPending, burstEdits, burstUpdates>>

\* Configuration values: a scalar, or an object from keys to values.
Scalar(x) == [type |-> "scalar", value |-> x]
Object(f) == [type |-> "object", fields |-> f]
IsObject(v) == IF v = NULL THEN FALSE ELSE v.type = "object"
EmptyFields == [k \in {} |-> NULL]
\* {...v}: the own keys of an object, none for null, undefined or a scalar.
Spread(v) == IF IsObject(v) THEN v.fields ELSE EmptyFields
\* v?.[k], null standing for undefined.
Get(v, k) == IF IsObject(v) /\ k \in DOMAIN Spread(v) THEN v.fields[k] ELSE NULL
\* {...f, [k]: v}
With(f, k, v) == [x \in DOMAIN f \cup {k} |-> IF x = k THEN v ELSE f[x]]

TransformationTypeKeys == {"restore", "fill", "remove", "recolor", "removeBackground"}

\* transformationTypes[type].config, the default configuration of a type.
TypeConfig(type) ==
    CASE type = "restore" -> Object([restore |-> Scalar("true")])
      [] type = "removeBackground" -> Object([removeBackground |-> Scalar("true")])
      [] type = "fill" -> Object([fillBackground |-> Scalar("true")])
      [] type = "remove" ->
            Object([remove |-> Object([prompt |-> Scalar(""), removeShadow |-> Scalar("true"),
                                       multiple |-> Scalar("true")])])
      [] type = "recolor" ->
            Object([recolor |-> Object([prompt |-> Scalar(""), to |-> Scalar(""),
                                        multiple |-> Scalar("true")])])

\* aspectRatioOptions
aspectRatioOptions ==
    [square |-> [aspectRatio |-> "1:1", width |-> 1000, height |-> 1000],
     portrait |-> [aspectRatio |-> "3:4", width |-> 1000, height |-> 1334]]

\* creditFee, the (negative) amount one transformation adds to the balance.
creditFee == -1
Abs(n) == IF n < 0 THEN 0 - n ELSE n

\* deepMergeObjects(obj1, obj2): obj1's keys laid over obj2's, recursively
\* where both hold an object; obj1 wins on every other conflict.
RECURSIVE deepMergeObjects(_, _)
deepMergeObjects(obj1, obj2) ==
    IF ~IsObject(obj2) THEN obj1
    ELSE IF ~IsObject(obj1) THEN obj2
    ELSE Object([k \in DOMAIN obj1.fields \cup DOMAIN obj2.fields |->
            IF k \notin DOMAIN obj1.fields THEN obj2.fields[k]
            ELSE IF k \in DOMAIN obj2.fields /\ IsObject(obj1.fields[k])
                        /\ IsObject(obj2.fields[k])
                 THEN deepMergeObjects(obj1.fields[k], obj2.fields[k])
                 ELSE obj1.fields[k]])

\* debounce(func, delay): a closure with a timer of its own, none set yet.
debounce(func) == [timeoutId |-> NULL, func |-> func]
\* Calling a debounced closure: the timer it set before, if any, is cleared,
\* and a timer that will run func after the delay is set.
CallDebounced(closure, pending) ==
    Append(IF closure.timeoutId = NULL THEN pending
           ELSE SelectSeq(pending, LAMBDA t : t # closure.timeoutId),
           closure.func)

\* The updater onInputChangeHandler hands to setNewTransformation.
InputChangeUpdate(prevState, func) ==
    Object(With(Spread(prevState), func.type,
                Object(With(Spread(Get(prevState, func.type)),
                            IF func.fieldName = "prompt" THEN "prompt" ELSE "to",
                            Scalar(func.value)))))

\* The useEffect of the form: with an image, the restore and removeBackground
\* types set the buffer to the type's default configuration.
AfterImageEffect(img, buffer) ==
    IF img # NULL /\ props.type \in {"restore", "removeBackground"}
    THEN TypeConfig(props.type) ELSE buffer

\* "Apply transformation" disabled also while the balance is below the fee.
ApplyDisabledOnLowBalance ==
    isTransforming \/ newTransformation = NULL \/ props.creditBalance < Abs(creditFee)
\* disabled= of the two buttons.
ApplyDisabled == isTransforming \/ newTransformation = NULL
\* "Save image" never disabled.
SaveNeverDisabled == FALSE
SaveDisabled == isSubmitting

\* The configuration onTransformHandler would set, with the arguments of
\* deepMergeObjects exchanged: the accumulated configuration wins.
MergedConfigSwapped == deepMergeObjects(transformationConfig, newTransformation)
\* The configuration onTransformHandler sets: the buffer merged into the
\* accumulated configuration.
MergedConfig == deepMergeObjects(newTransformation, transformationConfig)

\* The text an edited field holds after the n-th edit of a burst: it alternates,
\* so that every edit differs from the one before it.
EditValue(n) == IF n % 2 = 1 THEN "red" ELSE "green"
\* The titles a form is submitted with.
Titles == {"t2"}
\* The fields onInputChangeHandler is bound to, with the type it is given.
EditableFields ==
    IF props.type = "remove" THEN {[fieldName |-> "prompt", type |-> "remove"]}
    ELSE IF props.type = "recolor"
    THEN {[fieldName |-> "prompt", type |-> "recolor"], [fieldName |-> "color", type |-> "recolor"]}
    ELSE {}

\* The image the Update page is given, and the configuration stored with it.
StoredData ==
    [_id |-> 1, title |-> "t1", publicId |-> "p1", width |-> 1000, height |-> 1334]
StoredConfig(type) ==
    CASE type = "restore" -> Object([fillBackground |-> Scalar("true")])
      [] type = "recolor" ->
            Object([recolor |-> Object([to |-> Scalar("blue"), prompt |-> Scalar("car")])])
      [] OTHER -> TypeConfig(type)
\* The credit balance of the signed-in user.
CreditBalance(userId) == IF userId = "u1" THEN 10 ELSE 0

FormProps ==
    {[action |-> a, type |-> t, userId |-> u, creditBalance |-> CreditBalance(u),
      data |-> IF a = "Update" THEN StoredData ELSE NULL,
      config |-> IF a = "Update" THEN StoredConfig(t) ELSE NULL] :
        a \in {"Add", "Update"}, t \in TransformationTypeKeys, u \in {"u1", "u2"}}

InitForm ==
    /\ props \in FormProps
    /\ image = props.data
    /\ newTransformation = AfterImageEffect(props.data, NULL)
    /\ isSubmitting = FALSE
    /\ isTransforming = FALSE
    /\ transformationConfig = props.config
    /\ timers = <<>>
    /\ saving = NULL
    /\ navigated = NULL
    /\ creditRequests = 0
    /\ applyClicks = 0
    /\ creditDelta = 0
    /\ creditsPending = 0
    /\ burstEdits = 0
    /\ burstUpdates = 0

\* The insufficient-credits indicator is rendered.
InsufficientCreditsShown == props.creditBalance < Abs(creditFee)

\* "Save image": onSubmit up to its await.
onSubmit(s) ==
    /\ navigated = NULL
    /\ ~SaveDisabled
    /\ \E title \in Titles :
        IF props.data # NULL \/ image # NULL
        THEN /\ Invoke(s, IF props.action = "Add"
                          THEN NewCall("addImage", props.userId, 0, title, "/")
                          ELSE NewCall("updateImage", props.userId, props.data._id, title,
                                       "/transformations/" \o ToString(props.data._id)))
             /\ isSubmitting' = TRUE
             /\ saving' = [slot |-> s]
             /\ UNCHANGED <<props, image, newTransformation, isTransforming,
                            transformationConfig, timers, navigated, creditRequests,
                   applyClicks, creditDelta, creditsPending,
                            burstEdits, burstUpdates>>
        ELSE UNCHANGED <<serverVars, formVars>>

\* onSubmit navigating whenever the handler did not throw, record or not.
onSubmitSettledNavigatesAlways ==
    /\ saving # NULL
    /\ calls[saving.slot].pc = "done"
    /\ LET r == calls[saving.slot] IN
        IF r.thrown = NULL
        THEN /\ navigated' = [href |-> "/transformations/" \o
                                (IF r.result \in {Undefined, NULL} THEN "undefined"
                                 ELSE ToString(r.result._id))]
             /\ image' = IF props.action = "Add" THEN props.data ELSE image
             /\ newTransformation' =
                    IF props.action = "Add" THEN AfterImageEffect(props.data, newTransformation)
                    ELSE newTransformation
        ELSE UNCHANGED <<navigated, image, newTransformation>>
    /\ isSubmitting' = FALSE
    /\ saving' = NULL
    /\ UNCHANGED <<serverVars, props, isTransforming, transformationConfig, timers,
                   creditRequests,
                   applyClicks, creditDelta, creditsPending, burstEdits, burstUpdates>>

\* onSubmit with setIsSubmitting(false) only where the handler returned a record.
onSubmitSettledResetOnSuccess ==
    /\ saving # NULL
    /\ calls[saving.slot].pc = "done"
    /\ LET r == calls[saving.slot] IN
        IF r.thrown = NULL /\ r.result \notin {Undefined, NULL}
        THEN /\ navigated' = [href |-> "/transformations/" \o ToString(r.result._id)]
             /\ image' = IF props.action = "Add" THEN props.data ELSE image
             /\ newTransformation' =
                    IF props.action = "Add" THEN AfterImageEffect(props.data, newTransformation)
                    ELSE newTransformation
        ELSE UNCHANGED <<navigated, image, newTransformation>>
    /\ isSubmitting' = (navigated' = NULL)
    /\ saving' = NULL
    /\ UNCHANGED <<serverVars, props, isTransforming, transformationConfig, timers,
                   creditRequests,
                   applyClicks, creditDelta, creditsPending, burstEdits, burstUpdates>>

\* onSubmit ending with setIsTransforming(false) next to setIsSubmitting(false).
onSubmitSettledClearsTransforming ==
    /\ saving # NULL
    /\ calls[saving.slot].pc = "done"
    /\ LET r == calls[saving.slot] IN
        IF r.thrown = NULL /\ r.result \notin {Undefined, NULL}
        THEN /\ navigated' = [href |-> "/transformations/" \o ToString(r.result._id)]
             /\ image' = IF props.action = "Add" THEN props.data ELSE image
             /\ newTransformation' =
                    IF props.action = "Add" THEN AfterImageEffect(props.data, newTransformation)
                    ELSE newTransformation
        ELSE UNCHANGED <<navigated, image, newTransformation>>
    /\ isSubmitting' = FALSE
    /\ saving' = NULL
    /\ isTransforming' = FALSE
    /\ UNCHANGED <<serverVars, props, transformationConfig, timers,
                   creditRequests,
                   applyClicks, creditDelta, creditsPending, burstEdits, burstUpdates>>

\* onSubmit after its await: a record navigates to its page, then the save ends.
onSubmitSettled ==
    /\ saving # NULL
    /\ calls[saving.slot].pc = "done"
    /\ LET r == calls[saving.slot] IN
        IF r.thrown = NULL /\ r.result \notin {Undefined, NULL}
        THEN /\ navigated' = [href |-> "/transformations/" \o ToString(r.result._id)]
             /\ image' = IF props.action = "Add" THEN props.data ELSE image
             /\ newTransformation' =
                    IF props.action = "Add" THEN AfterImageEffect(props.data, newTransformation)
                    ELSE newTransformation
        ELSE UNCHANGED <<navigated, image, newTransformation>>
    /\ isSubmitting' = FALSE
    /\ saving' = NULL
    /\ UNCHANGED <<serverVars, props, isTransforming, transformationConfig, timers,
                   creditRequests,
                   applyClicks, creditDelta, creditsPending, burstEdits, burstUpdates>>

\* An aspect-ratio option is selected, the buffer being set through a debounced
\* closure as the text fields set it.
onSelectFieldHandlerDebounced ==
    /\ navigated = NULL
    /\ props.type = "fill"
    /\ \E value \in DOMAIN aspectRatioOptions :
        LET imageSize == aspectRatioOptions[value] IN
        /\ image' = With(With(With(Spread(Object(IF image = NULL THEN EmptyFields ELSE image)),
                            "aspectRatio", imageSize.aspectRatio),
                            "width", imageSize.width), "height", imageSize.height)
    /\ timers' = CallDebounced(debounce([fieldName |-> "prompt", value |-> "",
                                         type |-> props.type]), timers)
    /\ UNCHANGED <<serverVars, props, newTransformation, isSubmitting, isTransforming,
                   transformationConfig, saving, navigated, creditRequests,
                   applyClicks, creditDelta, creditsPending, burstEdits, burstUpdates>>

\* An aspect-ratio option is selected.
onSelectFieldHandler ==
    /\ navigated = NULL
    /\ props.type = "fill"
    /\ \E value \in DOMAIN aspectRatioOptions :
        LET imageSize == aspectRatioOptions[value] IN
        /\ image' = With(With(With(Spread(Object(IF image = NULL THEN EmptyFields ELSE image)),
                            "aspectRatio", imageSize.aspectRatio),
                            "width", imageSize.width), "height", imageSize.height)
    /\ newTransformation' = TypeConfig(props.type)
    /\ UNCHANGED <<serverVars, props, isSubmitting, isTransforming, transformationConfig,
                   timers, saving, navigated, creditRequests,
                   applyClicks, creditDelta, creditsPending, burstEdits, burstUpdates>>

\* "Apply transformation" without the transition that calls updateCredits.
onTransformHandlerNoCredits ==
    /\ navigated = NULL
    /\ ~ApplyDisabled
    /\ applyClicks < MaxApplies
    /\ applyClicks' = applyClicks + 1
    /\ isTransforming' = TRUE
    /\ transformationConfig' = MergedConfig
    /\ newTransformation' = NULL
    /\ UNCHANGED <<serverVars, props, image, isSubmitting, timers, saving, navigated,
                   creditRequests, creditDelta, creditsPending, burstEdits, burstUpdates>>

\* "Apply transformation": the click is counted, the flag set, the buffer
\* merged and cleared, and updateCredits(userId, creditFee) called.
onTransformHandler ==
    /\ navigated = NULL
    /\ ~ApplyDisabled
    /\ applyClicks < MaxApplies
    /\ applyClicks' = applyClicks + 1
    /\ isTransforming' = TRUE
    /\ transformationConfig' = MergedConfig
    /\ newTransformation' = NULL
    /\ creditRequests' = creditRequests + 1
    /\ creditDelta' = creditDelta + creditFee
    /\ creditsPending' = creditsPending + 1
    /\ UNCHANGED <<serverVars, props, image, isSubmitting, timers, saving, navigated,
                   burstEdits, burstUpdates>>

\* updateCredits settles, fulfilled or rejected: the transition callback ends
\* and no state of the form is set.
UpdateCreditsSettled ==
    /\ creditsPending > 0
    /\ \E outcome \in {"fulfilled", "rejected"} : creditsPending' = creditsPending - 1
    /\ UNCHANGED <<serverVars, props, image, newTransformation, isSubmitting,
                   isTransforming, transformationConfig, timers, saving, navigated,
                   creditRequests, applyClicks, creditDelta, burstEdits, burstUpdates>>

\* A field bound to onInputChangeHandler is edited: a new debounced closure is
\* made and called.
onInputChangeHandler(maxBurst) ==
    /\ navigated = NULL
    /\ timers = <<>> \/ burstEdits < maxBurst
    /\ burstEdits' = IF timers = <<>> THEN 1 ELSE burstEdits + 1
    /\ \E field \in EditableFields :
        timers' = CallDebounced(debounce([fieldName |-> field.fieldName,
                                          value |-> EditValue(burstEdits'),
                                          type |-> field.type]), timers)
    /\ burstUpdates' = IF timers = <<>> THEN 0 ELSE burstUpdates
    /\ UNCHANGED <<serverVars, props, image, newTransformation, isSubmitting,
                   isTransforming, transformationConfig, saving, navigated, creditRequests,
                   applyClicks, creditDelta, creditsPending>>

\* The earliest timer fires and runs its function.
TimerFires ==
    /\ timers # <<>>
    /\ newTransformation' = InputChangeUpdate(newTransformation, Head(timers))
    /\ timers' = Tail(timers)
    /\ burstUpdates' = burstUpdates + 1
    /\ UNCHANGED <<serverVars, props, image, isSubmitting, isTransforming,
                   transformationConfig, saving, navigated, creditRequests,
                   applyClicks, creditDelta, creditsPending, burstEdits>>

\* MediaUploader: an upload succeeds and sets the image.
MediaUploaded ==
    /\ navigated = NULL
    /\ image' = With(With(With(IF image = NULL THEN EmptyFields ELSE image,
                        "publicId", "p2"), "width", 1000), "height", 1000)
    /\ newTransformation' = AfterImageEffect(image', newTransformation)
    /\ UNCHANGED <<serverVars, props, isSubmitting, isTransforming, transformationConfig,
                   timers, saving, navigated, creditRequests,
                   applyClicks, creditDelta, creditsPending, burstEdits, burstUpdates>>

\* TransformedImage: the preview has loaded (or failed to), setIsTransforming(false).
TransformedImageSettled ==
    /\ isTransforming
    /\ isTransforming' = FALSE
    /\ UNCHANGED <<serverVars, props, image, newTransformation, isSubmitting,
                   transformationConfig, timers, saving, navigated, creditRequests,
                   applyClicks, creditDelta, creditsPending,
                   burstEdits, burstUpdates>>

\* No form is mounted: the handlers are called by other clients.
NoForm ==
    /\ props = NULL /\ image = NULL /\ newTransformation = NULL
    /\ isSubmitting = FALSE /\ isTransforming = FALSE /\ transformationConfig = NULL
    /\ timers = <<>> /\ saving = NULL /\ navigated = NULL
    /\ creditRequests = 0 /\ applyClicks = 0 /\ creditDelta = 0 /\ creditsPending = 0
    /\ burstEdits = 0 /\ burstUpdates = 0

vars == <<serverVars, formVars>>

\* The connector and the action handlers, called by any clients.
Init == InitServer /\ NoForm

Next ==
    \/ \E s \in Slots : addImage(s) /\ UNCHANGED formVars
    \/ \E s \in Slots : updateImage(s) /\ UNCHANGED formVars
    \/ \E s \in Slots : deleteImage(s) /\ UNCHANGED formVars
    \/ \E s \in Slots : getImageById(s) /\ UNCHANGED formVars
    \/ MongooseConnectFulfilled /\ UNCHANGED formVars
    \/ MongooseConnectRejected /\ UNCHANGED formVars
    \/ \E s \in Slots : connectToDatabaseResume(s) /\ UNCHANGED formVars
    \/ \E s \in Slots : afterConnectToDatabase(s) /\ UNCHANGED formVars
    \/ \E s \in Slots : OperationFails(s) /\ UNCHANGED formVars
    \/ \E s \in Slots : addImageFindUser(s) /\ UNCHANGED formVars
    \/ \E s \in Slots : addImageCreate(s) /\ UNCHANGED formVars
    \/ \E s \in Slots : updateImageFindById(s) /\ UNCHANGED formVars
    \/ \E s \in Slots : updateImageFindByIdAndUpdate(s) /\ UNCHANGED formVars
    \/ \E s \in Slots : deleteImageFindByIdAndDelete(s) /\ UNCHANGED formVars
    \/ \E s \in Slots : getImageByIdFind(s) /\ UNCHANGED formVars

Spec == Init /\ [][Next]_vars

\* One transformation form and the server calls its saves make.
InitForms == InitServer /\ MONGODB_URL # NULL /\ InitForm
\* The same, the form being that of the user who owns the stored image.
InitEdits == InitForms /\ props.userId = "u1"

NextForm ==
    \/ \E s \in Slots : onSubmit(s)
    \/ onSubmitSettled
    \/ onSelectFieldHandler
    \/ onTransformHandler
    \/ onInputChangeHandler(MaxFormEdits)
    \/ TimerFires
    \/ MediaUploaded
    \/ TransformedImageSettled
    \/ MongooseConnectFulfilled /\ UNCHANGED formVars
    \/ MongooseConnectRejected /\ UNCHANGED formVars
    \/ \E s \in Slots : connectToDatabaseResume(s) /\ UNCHANGED formVars
    \/ \E s \in Slots : afterConnectToDatabase(s) /\ UNCHANGED formVars
    \/ \E s \in Slots : OperationFails(s) /\ UNCHANGED formVars
    \/ \E s \in Slots : addImageFindUser(s) /\ UNCHANGED formVars
    \/ \E s \in Slots : addImageCreate(s) /\ UNCHANGED formVars
    \/ \E s \in Slots : updateImageFindById(s) /\ UNCHANGED formVars
    \/ \E s \in Slots : updateImageFindByIdAndUpdate(s) /\ UNCHANGED formVars

SpecForm == InitEdits /\ [][NextForm]_vars

\* The form with its saves and with the settling of its credit requests, every
\* edit made with no timer pending.
NextTransform ==
    \/ \E s \in Slots : onSubmit(s)
    \/ onSubmitSettled
    \/ onSelectFieldHandler
    \/ onTransformHandler
    \/ onInputChangeHandler(1)
    \/ TimerFires
    \/ MediaUploaded
    \/ TransformedImageSettled
    \/ UpdateCreditsSettled
    \/ MongooseConnectFulfilled /\ UNCHANGED formVars
    \/ MongooseConnectRejected /\ UNCHANGED formVars
    \/ \E s \in Slots : connectToDatabaseResume(s) /\ UNCHANGED formVars
    \/ \E s \in Slots : afterConnectToDatabase(s) /\ UNCHANGED formVars
    \/ \E s \in Slots : OperationFails(s) /\ UNCHANGED formVars
    \/ \E s \in Slots : addImageFindUser(s) /\ UNCHANGED formVars
    \/ \E s \in Slots : addImageCreate(s) /\ UNCHANGED formVars
    \/ \E s \in Slots : updateImageFindById(s) /\ UNCHANGED formVars
    \/ \E s \in Slots : updateImageFindByIdAndUpdate(s) /\ UNCHANGED formVars

SpecTransform == InitForms /\ [][NextTransform]_vars

\* The same, the continuation of onSubmit being run once its call has settled.
SpecTransformFair == SpecTransform /\ WF_vars(onSubmitSettled)

\* The form's editing alone, no save made, with longer bursts of edits.
NextEdits ==
    \/ onInputChangeHandler(MaxEdits)
    \/ TimerFires
    \/ onSelectFieldHandler
    \/ onTransformHandler
    \/ MediaUploaded
    \/ TransformedImageSettled
    \/ UpdateCreditsSettled

SpecEdits == InitEdits /\ [][NextEdits]_vars

(***************************************************************************)
(* Properties of the connector and the action handlers                     *)
(***************************************************************************)

Started(s) == calls[s].pc # "idle"
Done(s) == calls[s].pc = "done"
\* The call of slot s takes a step in this transition.
Steps(s) == calls'[s] # calls[s]

\* C1: whatever the interleaving of the callers of connectToDatabase, at most
\* one mongoose.connect attempt is made, every caller that connectToDatabase
\* returned to got the handle of that one attempt, and that handle is the
\* cached one; a call made once the handle is cached gets it with no new attempt.
C1_OneConnectionAttempt ==
    /\ Len(attempts) <= 1
    /\ \A s \in Slots : calls[s].handle # NULL =>
            /\ Len(attempts) = 1
            /\ calls[s].handle = Handle(1)
            /\ cached.connection = calls[s].handle
    /\ \A s \in Slots :
            (calls[s].pc = "awaitConnector" /\ "handle" \in DOMAIN calls[s].connect) =>
                /\ attempts = <<"fulfilled">>
                /\ calls[s].connect.handle = Handle(1)
                /\ cached.connection = Handle(1)
    /\ \A s, t \in Slots :
            calls[s].handle # NULL /\ calls[t].handle # NULL
                => calls[s].handle = calls[t].handle

\* Two callers entered before the connection was stored, awaited the promise
\* and both have returned from connectToDatabase, their handlers still running.
C1_Witness ==
    \E s, t \in Slots :
        /\ s # t
        /\ calls[s].promise # NULL /\ calls[s].handle # NULL
        /\ calls[t].promise # NULL /\ calls[t].handle # NULL

\* C2: when updateImage's findById finds no image, or an image whose owner is
\* not the acting userId, the call ends there with no result, the images
\* collection is left as it was and no path is revalidated.
C2_UpdateRefused ==
    [][\A s \in Slots :
        (/\ calls[s].kind = "updateImage"
         /\ calls[s].pc = "findImage"
         /\ Steps(s)
         /\ \/ FindImage(calls[s].imageId) = NULL
            \/ toHexString(FindImage(calls[s].imageId).author) # calls[s].userId)
        => /\ calls'[s].pc = "done"
           /\ calls'[s].result = Undefined
           /\ calls'[s].revalidated = {}
           /\ calls'[s].wrote = FALSE
           /\ images' = images]_vars

\* An updateImage by a user who is not the owner of an image that exists was refused.
C2_Witness ==
    \E s \in Slots :
        /\ calls[s].kind = "updateImage" /\ Done(s)
        /\ calls[s].logged = [message |-> "Unauthorized or Image not found"]
        /\ FindImage(calls[s].imageId) # NULL
        /\ toHexString(FindImage(calls[s].imageId).author) # calls[s].userId

\* C3: an addImage call that returns a result has created exactly one image
\* document, in its last step, whose author is the user its userId resolves to,
\* and the result is the JSON copy of the stored document; any other step of an
\* addImage call, and every call whose userId resolves to no user, creates
\* nothing; with an existing user the call fails only if an operation fails.
C3_AddImageCreatesOne ==
    [][\A s \in Slots :
        (calls[s].kind = "addImage" /\ Steps(s)) =>
            IF calls'[s].pc = "done" /\ calls'[s].result # Undefined
            THEN /\ calls[s].userId \in UsersInDb
                 /\ Len(images') = Len(images) + 1
                 /\ SubSeq(images', 1, Len(images)) = images
                 /\ images'[Len(images')].author = ObjectId(calls[s].userId)
                 /\ calls'[s].result = Serialize(images'[Len(images')])
                 /\ calls'[s].result._id = Len(images')
            ELSE /\ images' = images
                 /\ (calls'[s].pc = "done" /\ calls[s].userId \in UsersInDb)
                        => calls'[s].logged \in
                            {[message |-> "operation failed"],
                             [message |-> "connection failed"],
                             [message |-> "MONGO_URI is not defined or Missing"]}]_vars

\* An addImage returned the copy of the document it stored for another user
\* than the first.
C3_Witness ==
    \E s \in Slots :
        /\ calls[s].kind = "addImage" /\ Done(s)
        /\ calls[s].result # Undefined
        /\ calls[s].userId = "u2"
        /\ FindImage(calls[s].result._id) # NULL
        /\ Serialize(FindImage(calls[s].result._id)) = calls[s].result

\* C4: a deleteImage call that has ended has redirected to "/", whether the
\* image existed, was missing, or the connection or the delete failed.
C4_DeleteAlwaysRedirects ==
    \A s \in Slots :
        (calls[s].kind = "deleteImage" /\ Done(s)) => calls[s].redirect = [to |-> "/"]

\* A deleteImage whose connection or delete step failed has redirected.
C4_Witness ==
    \E s \in Slots :
        /\ calls[s].kind = "deleteImage" /\ Done(s)
        /\ calls[s].logged # NULL
        /\ calls[s].redirect = [to |-> "/"]

\* C8 as stated: every call that changed the images collection has revalidated
\* a path by the time it returns.
C8_EveryMutationRevalidates ==
    \A s \in Slots : (Done(s) /\ calls[s].wrote) => calls[s].revalidated # {}

\* C8 amended: addImage and updateImage have revalidated exactly the path they
\* were given when they return after their mutation; deleteImage, which takes
\* no path, revalidates nothing.
C8_AddUpdateRevalidate ==
    \A s \in Slots :
        /\ (Done(s) /\ calls[s].wrote /\ calls[s].kind \in {"addImage", "updateImage"})
                => calls[s].revalidated = {calls[s].path}
        /\ calls[s].kind \in {"deleteImage", "getImageById"} => calls[s].revalidated = {}

\* An updateImage that wrote has revalidated its path, and a deleteImage that
\* deleted a document has revalidated none.
C8_Witness ==
    \E s, t \in Slots :
        /\ calls[s].kind = "updateImage" /\ Done(s) /\ calls[s].wrote
        /\ calls[s].revalidated = {calls[s].path}
        /\ calls[t].kind = "deleteImage" /\ Done(t) /\ calls[t].wrote

\* C9: without MONGO_URI and with no handle cached, connectToDatabase has thrown
\* the configuration error to every call made, which is still suspended on it
\* or has logged it and ended; no connection attempt was made, and the cached
\* connection and promise are still null.
C9_MissingUriFails ==
    (MONGODB_URL = NULL /\ cached.connection = NULL) =>
        /\ attempts = <<>>
        /\ cached.promise = NULL
        /\ \A s \in Slots : Started(s) =>
                /\ calls[s].handle = NULL
                /\ \/ /\ calls[s].pc = "awaitConnector"
                      /\ calls[s].connect =
                            [message |-> "MONGO_URI is not defined or Missing"]
                   \/ /\ Done(s)
                      /\ calls[s].logged =
                            [message |-> "MONGO_URI is not defined or Missing"]

\* Without MONGO_URI one call has failed and another, made since, is still
\* suspended on the connectToDatabase that threw.
C9_Witness ==
    /\ MONGODB_URL = NULL
    /\ \E s, t \in Slots :
        /\ Done(s) /\ calls[s].kind = "addImage"
        /\ calls[t].pc = "awaitConnector"

\* C10: addImage, updateImage and getImageById never end with an error thrown
\* to the caller; a call that caught an error has logged it and returns
\* undefined, and a call that logged nothing returns the copy of a document or
\* (updateImage finding its document gone) null.
C10_HandlersNeverThrow ==
    \A s \in Slots :
        (Done(s) /\ calls[s].kind \in {"addImage", "updateImage", "getImageById"}) =>
            /\ calls[s].thrown = NULL
            /\ calls[s].logged # NULL => calls[s].result = Undefined /\ ~calls[s].wrote
            /\ calls[s].logged = NULL => calls[s].result # Undefined

\* One call failed on a missing image and another on a user not found; both
\* returned undefined.
C10_Witness ==
    \E s, t \in Slots :
        /\ calls[s].kind = "getImageById" /\ Done(s)
        /\ calls[s].logged = [message |-> "Image not found"]
        /\ calls[s].result = Undefined
        /\ calls[t].kind = "addImage" /\ Done(t)
        /\ calls[t].logged = [message |-> "User not found"]
        /\ calls[t].result = Undefined

\* C17: the owner of an image never changes: in every step each stored image
\* that is still stored keeps its author, a deleted image stays deleted, no
\* image but a newly created last one appears, its author being the user the
\* creating addImage resolved, and an updateImage that wrote is the owner's.
C17_OwnerNeverChanges ==
    [][/\ Len(images') >= Len(images)
       /\ \A id \in 1..Len(images) :
            IF images[id] = NULL THEN images'[id] = NULL
            ELSE images'[id] # NULL => images'[id].author = images[id].author
       /\ Len(images') > Len(images) =>
            /\ Len(images') = Len(images) + 1
            /\ \E s \in Slots :
                    /\ calls[s].kind = "addImage" /\ Steps(s)
                    /\ images'[Len(images')].author = ObjectId(calls[s].userId)
                    /\ calls[s].userId \in UsersInDb
       /\ \A s \in Slots :
            (calls[s].kind = "updateImage" /\ Steps(s) /\ calls'[s].wrote) =>
                /\ images'[calls[s].imageId].author = ObjectId(calls[s].userId)
                /\ images[calls[s].imageId].author = ObjectId(calls[s].userId)]_vars

\* The owner updated the stored image: it has another title and the same author.
C17_Witness ==
    \E s \in Slots :
        /\ calls[s].kind = "updateImage" /\ Done(s) /\ calls[s].wrote
        /\ calls[s].imageId = 1
        /\ images[1] # NULL
        /\ images[1].title = "t2"
        /\ images[1].author = ObjectId("u1")

\* C18: a failed connection attempt is never retried: once the one attempt has
\* rejected, the rejected promise stays cached and the handle stays null; every
\* call made so far is waiting on that promise or has failed with its error,
\* none got a handle; and a call made from then on makes no new attempt and
\* awaits the same rejected promise.
C18_FailedAttemptNotRetried ==
    /\ [](attempts # <<>> /\ attempts[1] = "rejected" =>
            /\ Len(attempts) = 1
            /\ cached = [connection |-> NULL, promise |-> [id |-> 1]]
            /\ \A s \in Slots : Started(s) =>
                    /\ calls[s].handle = NULL
                    /\ \/ calls[s].pc = "awaitConnect" /\ calls[s].promise = cached.promise
                       \/ /\ calls[s].pc = "awaitConnector"
                          /\ calls[s].connect = [message |-> "connection failed"]
                       \/ /\ Done(s)
                          /\ calls[s].logged = [message |-> "connection failed"]
                          /\ ~calls[s].wrote)
    /\ [][(attempts # <<>> /\ attempts[1] = "rejected") =>
            /\ attempts' = attempts
            /\ cached' = cached
            /\ images' = images
            /\ \A s \in Slots : (~Started(s) /\ Started(s)') =>
                    calls'[s].pc = "awaitConnect" /\ calls'[s].promise = cached.promise]_vars

\* After the attempt rejected, a call that awaited it has failed and another
\* call is waiting on the same cached promise.
C18_Witness ==
    /\ attempts = <<"rejected">>
    /\ cached.promise = [id |-> 1]
    /\ \E s, t \in Slots :
        /\ Done(s) /\ calls[s].logged = [message |-> "connection failed"]
        /\ calls[t].pc = "awaitConnect"

(***************************************************************************)
(* Properties of the transformation form                                   *)
(***************************************************************************)

\* C5 as stated: five edits made within the debounce window (each while the
\* timer of the one before is pending) lead to exactly one update of the
\* buffer: of the updates made and the updates still scheduled there is one.
C5_FiveEditsOneUpdate ==
    burstEdits = 5 => burstUpdates + Len(timers) = 1

\* C6: "Apply transformation" is clicked only with a pending change and no
\* transform in flight, and "Save image" only with no save in flight: no
\* second server call of the form starts while one is in flight, and
\* isSubmitting is set exactly while the form awaits its call.
C6_ButtonsDisabledInFlight ==
    [][/\ creditRequests' # creditRequests
            => ~isTransforming /\ newTransformation # NULL
       /\ (\E s \in Slots : calls[s].pc = "idle" /\ calls'[s].pc # "idle")
            => ~isSubmitting /\ \A t \in Slots : ~InFlight(t)
       /\ isSubmitting' <=> saving' # NULL
       /\ Cardinality({t \in Slots : InFlight(t)}') <= 1]_vars

\* A save and a transform are both in flight, with a change pending: both
\* buttons are disabled.
C6_Witness ==
    /\ isSubmitting /\ saving # NULL /\ InFlight(saving.slot)
    /\ isTransforming /\ newTransformation # NULL
    /\ ApplyDisabled /\ SaveDisabled

\* C7: an "Apply transformation" click sets the accumulated configuration to
\* the deep merge of the buffer into it: the keys are those of either; a key of
\* one only keeps its value; where both hold an object under a key the nested
\* keys are merged the same way, the buffer's scalar winning and the siblings
\* kept; on any other conflict the buffer's value wins.
C7_ApplyDeepMerges ==
    [][creditRequests' # creditRequests =>
        LET n == Spread(newTransformation)
            o == Spread(transformationConfig)
            m == Spread(transformationConfig')
        IN /\ IsObject(transformationConfig')
           /\ DOMAIN m = DOMAIN n \cup DOMAIN o
           /\ \A k \in DOMAIN m :
                IF k \notin DOMAIN n THEN m[k] = o[k]
                ELSE IF k \notin DOMAIN o THEN m[k] = n[k]
                ELSE IF IsObject(n[k]) /\ IsObject(o[k])
                THEN /\ IsObject(m[k])
                     /\ DOMAIN m[k].fields = DOMAIN n[k].fields \cup DOMAIN o[k].fields
                     /\ \A j \in DOMAIN m[k].fields :
                            m[k].fields[j] = IF j \in DOMAIN n[k].fields
                                             THEN n[k].fields[j] ELSE o[k].fields[j]
                ELSE m[k] = n[k]]_vars

\* {recolor: {to: red}} was merged into {recolor: {to: blue, prompt: car}}.
C7_Witness ==
    /\ creditRequests = 1
    /\ props.config = Object([recolor |-> Object([to |-> Scalar("blue"),
                                                  prompt |-> Scalar("car")])])
    /\ transformationConfig = Object([recolor |-> Object([to |-> Scalar("red"),
                                                          prompt |-> Scalar("car")])])

\* C11: every "Apply transformation" click sets isTransforming, leaves the
\* buffer null and makes one updateCredits request of creditFee; no other step
\* makes a request; so the requests made are as many as the clicks, and the
\* amount asked for is the clicks times the fee.
C11_ApplyRequestsOneDeduction ==
    [][/\ applyClicks' # applyClicks =>
            /\ applyClicks' = applyClicks + 1
            /\ ~isTransforming /\ isTransforming'
            /\ newTransformation # NULL /\ newTransformation' = NULL
            /\ creditRequests' = creditRequests + 1
            /\ creditDelta' = creditDelta + creditFee
            /\ creditsPending' = creditsPending + 1
       /\ applyClicks' = applyClicks =>
            creditRequests' = creditRequests /\ creditDelta' = creditDelta
       /\ creditRequests' = applyClicks'
       /\ creditDelta' = applyClicks' * creditFee]_vars

\* Two clicks were made, the second with the preview of the first completed, and
\* two deductions of the fee were requested.
C11_Witness ==
    /\ applyClicks = 2
    /\ creditRequests = 2
    /\ creditDelta = 2 * creditFee
    /\ isTransforming /\ newTransformation = NULL

\* C12: a save calls addImage when the action is Add and updateImage, on the
\* image of the page, when it is Update, for the form's user; router.push is
\* called only in onSubmit's continuation, with /transformations/{id} of the
\* record the handler returned; when the handler returned no record the
\* continuation navigates nowhere and leaves image, buffer and configuration.
C12_SaveCallsAndNavigates ==
    [][/\ \A s \in Slots : (~Started(s) /\ Started(s)') =>
            /\ saving = NULL /\ saving' = [slot |-> s]
            /\ calls'[s].userId = props.userId
            /\ IF props.action = "Add"
               THEN calls'[s].kind = "addImage" /\ calls'[s].path = "/"
               ELSE /\ calls'[s].kind = "updateImage"
                    /\ calls'[s].imageId = props.data._id
                    /\ calls'[s].path = "/transformations/" \o ToString(props.data._id)
       /\ navigated' # navigated =>
            /\ navigated = NULL /\ saving # NULL /\ saving' = NULL
            /\ Done(saving.slot)
            /\ calls[saving.slot].thrown = NULL
            /\ calls[saving.slot].result \notin {Undefined, NULL}
            /\ navigated' = [href |-> "/transformations/" \o
                                ToString(calls[saving.slot].result._id)]
       /\ (saving # NULL /\ saving' = NULL) =>
            IF calls[saving.slot].thrown = NULL
                    /\ calls[saving.slot].result \notin {Undefined, NULL}
            THEN navigated' # NULL
            ELSE /\ navigated' = NULL
                 /\ image' = image
                 /\ newTransformation' = newTransformation
                 /\ transformationConfig' = transformationConfig]_vars

\* A first save failed and left the form in place; the second returned a record
\* and the form navigated to its page.
C12_Witness ==
    /\ Done(1) /\ calls[1].result = Undefined /\ calls[1].logged # NULL
    /\ Done(2) /\ calls[2].result \notin {Undefined, NULL}
    /\ navigated = [href |-> "/transformations/" \o ToString(calls[2].result._id)]

\* C13: once the call a save awaits has settled, whatever it returned, the
\* form returns to idle: isSubmitting is false and "Save image" enabled.
C13_SaveReturnsToIdle ==
    (saving # NULL /\ Done(saving.slot)) ~> (saving = NULL /\ ~isSubmitting /\ ~SaveDisabled)

\* A save whose call returned nothing has ended: the form is idle, not navigated.
C13_Witness ==
    /\ Done(1) /\ calls[1].result = Undefined
    /\ ~Started(2)
    /\ saving = NULL /\ ~isSubmitting /\ ~SaveDisabled /\ navigated = NULL

\* C14: while a transform is in flight, the only step that clears isTransforming
\* is the preview's completion callback; every other step (an edit, its timer, a
\* select, an upload, a save or its continuation, the settling of updateCredits)
\* leaves it set and "Apply transformation" disabled.
C14_NoRecoveryFromTransform ==
    [][isTransforming =>
        IF TransformedImageSettled THEN ~isTransforming'
        ELSE isTransforming' /\ ApplyDisabled']_vars

\* Since the one Apply click the credit request has settled, a save has ended
\* and an edit has set the buffer, and the transform is still in flight.
C14_Witness ==
    /\ applyClicks = 1 /\ isTransforming
    /\ creditsPending = 0
    /\ newTransformation # NULL
    /\ Done(1) /\ saving = NULL
    /\ ApplyDisabled

\* C15: a balance below the fee shows the indicator and nothing else: the
\* buttons are disabled by isTransforming, the empty buffer and isSubmitting
\* alone, and whatever the balance a pending change can be applied, an option
\* selected and a field edited.
C15_LowBalanceOnlyShowsIndicator ==
    /\ InsufficientCreditsShown <=> props.creditBalance + creditFee < 0
    /\ ApplyDisabled <=> (isTransforming \/ newTransformation = NULL)
    /\ SaveDisabled <=> isSubmitting
    /\ (ENABLED onTransformHandler) <=>
            /\ navigated = NULL /\ applyClicks < MaxApplies
            /\ ~isTransforming /\ newTransformation # NULL
    /\ (ENABLED onSelectFieldHandler) <=> (navigated = NULL /\ props.type = "fill")
    /\ (ENABLED onInputChangeHandler(1)) <=>
            /\ navigated = NULL /\ props.type \in {"remove", "recolor"}
            /\ timers = <<>> \/ burstEdits < 1

\* With a balance below the fee a change was applied and the deduction requested.
C15_Witness ==
    /\ InsufficientCreditsShown
    /\ props.creditBalance = 0
    /\ applyClicks = 1 /\ creditRequests = 1 /\ creditDelta = creditFee
    /\ isTransforming

\* C16: selecting an aspect-ratio option sets, in the step of the selection and
\* with no timer set, the buffer to the default configuration of the type,
\* whatever it held, and the image's aspectRatio, width and height to those of
\* the option, the other fields of the image kept; after it "Apply
\* transformation" is disabled exactly when a transform is in flight.
C16_SelectReplacesBuffer ==
    [][onSelectFieldHandler =>
        /\ newTransformation' = TypeConfig(props.type)
        /\ timers' = timers
        /\ \E value \in DOMAIN aspectRatioOptions :
                /\ image'.aspectRatio = aspectRatioOptions[value].aspectRatio
                /\ image'.width = aspectRatioOptions[value].width
                /\ image'.height = aspectRatioOptions[value].height
        /\ image # NULL =>
                \A k \in DOMAIN image \ {"aspectRatio", "width", "height"} :
                    k \in DOMAIN image' /\ image'[k] = image[k]
        /\ isTransforming' = isTransforming
        /\ ApplyDisabled' <=> isTransforming]_vars

\* An option was selected after an Apply click had cleared the buffer and its
\* preview had completed: the buffer holds the default configuration of fill,
\* the image the size of the option, and "Apply transformation" is enabled.
C16_Witness ==
    /\ props.type = "fill"
    /\ applyClicks = 1 /\ ~isTransforming
    /\ newTransformation = TypeConfig("fill")
    /\ image # NULL
    /\ image.aspectRatio = "3:4" /\ image.width = 1000 /\ image.height = 1334
    /\ ~ApplyDisabled

====
